---- MODULE Spec2Model ----
(***************************************************************************)
(* labelview: the `get` command of src/main.rs.  One session resolves the  *)
(* labeler, opens the label subscription websocket, and reads messages in  *)
(* a loop that races every read against the stream timeout.  Each #labels  *)
(* frame is decoded (src/db.rs) and handed to LabelStore::process_labels,  *)
(* which compares it with the rows stored by earlier runs and writes the   *)
(* batch in one transaction.                                               *)
(***************************************************************************)
EXTENDS Integers, Sequences, FiniteSets, TLC

(***************************************************************************)
(* Bounds of the model.                                                    *)
(***************************************************************************)
\* messages the peer delivers in one session
MaxFrames == 2
\* largest seq the peer puts in a #labels body
MaxSeq == 3
\* most labels in one #labels body
MaxLabels == 2
\* longest silence (in timer ticks) observed while no timer is armed
MaxGap == 2
\* largest stream_timeout argument, in seconds
MaxTimeout == 1

(***************************************************************************)
(* Option<T>: None is the empty sequence, Some(x) the one-element one.     *)
(***************************************************************************)
None == <<>>
Some(x) == <<x>>
IsSome(o) == Len(o) = 1
Unwrap(o) == o[1]

\* i64::MAX of `(1..i64::MAX).contains(&seq)`; TLC's integers are 32
\* bits wide, so its largest integer stands for the largest i64.
I64_MAX == 2147483647

\* the instant chrono::Utc::now() returns during the session
Now == 10

(***************************************************************************)
(* Strings that are compared (create timestamps) are sequences of          *)
(* character codes, ordered as Rust orders str: lexicographically.         *)
(***************************************************************************)
RECURSIVE StrLess(_, _)
StrLess(a, b) ==
    IF b = <<>> THEN FALSE
    ELSE IF a = <<>> THEN TRUE
    ELSE IF a[1] # b[1] THEN a[1] < b[1]
    ELSE StrLess(Tail(a), Tail(b))

StrMax(a, b) == IF StrLess(a, b) THEN b ELSE a

\* db.rs: parse_datetime. "past", "now" and "future" stand for well-formed
\* RFC3339 instants before, at and after Now; anything else does not parse.
parse_datetime(s) ==
    IF s = "past" THEN Some(Now - 1)
    ELSE IF s = "now" THEN Some(Now)
    ELSE IF s = "future" THEN Some(Now + 1)
    ELSE None

(***************************************************************************)
(* db.rs: LabelKey, LabelDbKey, LabelRecord.                               *)
(***************************************************************************)
LabelKey(src, uri, val) == [src |-> src, target_uri |-> uri, val |-> val]
LabelDbKey(key, seq) == [key |-> key, seq |-> seq]

\* LabelRecord::is_expired
is_expired(rec, now) ==
    IF ~IsSome(rec.expiry_timestamp) THEN FALSE
    ELSE LET exp == parse_datetime(Unwrap(rec.expiry_timestamp))
         IN  IF ~IsSome(exp) THEN FALSE
             ELSE Unwrap(exp) > now

(***************************************************************************)
(* The wire: what a #labels body carries for one label                     *)
(* (com.atproto.label.defs#label), before it becomes a LabelRecord.        *)
(***************************************************************************)
WireLabel(ver, src, neg, exp, cts) ==
    [ver |-> ver, src |-> src, uri |-> "at:x", val |-> "spam",
     cts |-> cts, exp |-> exp, neg |-> neg, cid |-> None]

\* label_from_wire without the version check
label_from_wire_any_version(label, seq) ==
    [ok |-> TRUE,
     rec |-> [dbkey |-> LabelDbKey(LabelKey(label.src, label.uri, label.val), seq),
              target_cid |-> label.cid,
              create_timestamp |-> label.cts,
              expiry_timestamp |-> label.exp,
              neg |-> IF IsSome(label.neg) THEN Unwrap(label.neg) ELSE FALSE]]

\* from_subscription_record, the closure of `.map(|label| ...)`: one label
\* of the body to a LabelRecord, or an error for a version other than 1.
label_from_wire(label, seq) ==
    IF label.ver # Some(1)
    THEN [ok |-> FALSE]
    ELSE [ok |-> TRUE,
          rec |-> [dbkey |-> LabelDbKey(LabelKey(label.src, label.uri, label.val), seq),
                   target_cid |-> label.cid,
                   create_timestamp |-> label.cts,
                   expiry_timestamp |-> label.exp,
                   neg |-> IF IsSome(label.neg) THEN Unwrap(label.neg) ELSE FALSE]]

\* `.collect::<Result<Vec<_>>>()`: the records in order, or the first error.
RECURSIVE collect_labels(_, _)
collect_labels(labels, seq) ==
    IF labels = <<>> THEN [ok |-> TRUE, labels |-> <<>>]
    ELSE LET head == label_from_wire(Head(labels), seq)
             rest == collect_labels(Tail(labels), seq)
         IN  IF ~head.ok THEN [ok |-> FALSE]
             ELSE IF ~rest.ok THEN [ok |-> FALSE]
             ELSE [ok |-> TRUE, labels |-> <<head.rec>> \o rest.labels]

\* from_subscription_record without the range check on seq: the older
\* decoder of lib.rs, which the get command does not call
from_subscription_record_any_seq(body) ==
    IF body.kind # "labels" THEN [ok |-> FALSE]
    ELSE collect_labels(body.labels, body.seq)

\* LabelRecord::from_subscription_record (db.rs)
from_subscription_record(body) ==
    IF body.kind # "labels" THEN [ok |-> FALSE]
    ELSE IF ~(1 <= body.seq /\ body.seq < I64_MAX) THEN [ok |-> FALSE]
    ELSE collect_labels(body.labels, body.seq)

(***************************************************************************)
(* GetCmd::header_type.  A header is the decoded CBOR map: op, and the     *)
(* optional fields t, error and message.  The Header struct declares       *)
(* `t: String`, so a map without t does not deserialize.                   *)
(***************************************************************************)
header_type(header) ==
    IF ~IsSome(header.t) THEN [ok |-> FALSE, err |-> "header_decode"]
    ELSE IF header.op # 1
    THEN [ok |-> FALSE, err |-> "peer_error",
          error_1 |-> IF IsSome(header.error) THEN Unwrap(header.error)
                      ELSE "(no error type)",
          error_2 |-> IF IsSome(header.message) THEN Unwrap(header.message)
                      ELSE "(no error message)"]
    ELSE [ok |-> TRUE, ty |-> Unwrap(header.t)]

\* Duration::try_from_secs_f64(stream_timeout).ok(): negative values are an
\* error, zero and positive ones a duration.
sleep_duration_of(stream_timeout) ==
    IF stream_timeout < 0 THEN None ELSE Some(stream_timeout)

(***************************************************************************)
(* Finite maps (HashMap) are functions on a finite domain.                 *)
(***************************************************************************)
EmptyMap == [x \in {} |-> x]
Put(f, k, v) == [x \in (DOMAIN f) \cup {k} |-> IF x = k THEN v ELSE f[x]]
Remove(f, k) == [x \in (DOMAIN f) \ {k} |-> f[x]]
Range(s) == {s[i] : i \in DOMAIN s}
Max(S) == CHOOSE m \in S : \A x \in S : x <= m
Perms(S) == {f \in [1..Cardinality(S) -> S] : \A i, j \in DOMAIN f : f[i] = f[j] => i = j}

(***************************************************************************)
(* The database (db.rs).  label_records and suspicious_records are the     *)
(* tables, in insertion order.  A label_records row is the record plus     *)
(* import_id and last_seen_timestamp.  unique_key tells whether the schema *)
(* declares the db key (src, target_uri, val, seq) unique.                 *)
(***************************************************************************)
\* The schema is created by the migrations, which main.rs embeds and which
\* are not among the sources.  The specification describes label_records
\* without a uniqueness constraint; LabelRecord::insert expects key
\* conflicts.  The model covers both schemas.
KeyConstraints == BOOLEAN

\* the id begin_import returns for this run; rows of earlier runs carry an
\* earlier id and an earlier last_seen_timestamp
ImportId == 2
PriorImportId == 1
PriorSeen == 5

Row(rec, import_id, seen) == [rec |-> rec, import_id |-> import_id, last_seen_timestamp |-> seen]

\* db::seq_for_src: SELECT coalesce(max(seq), 0) FROM label_records WHERE src = :src
seq_for_src(db, src_did) ==
    LET seqs == {db.label_records[i].rec.dbkey.seq : i \in
                    {j \in DOMAIN db.label_records : db.label_records[j].rec.dbkey.key.src = src_did}}
    IN  IF seqs = {} THEN 0 ELSE Max(seqs)

\* load_known_range with the range's end left out
load_known_range_exclusive(db, src, seq_start, seq_end) ==
    LET InRange(row) == /\ row.rec.dbkey.key.src = src
                        /\ row.rec.dbkey.seq >= seq_start
                        /\ row.rec.dbkey.seq < seq_end
        rows == SelectSeq(db.label_records, InRange)
    IN  [i \in DOMAIN rows |-> rows[i].rec]

\* LabelRecord::load_known_range: the stored records of src with
\* seq_start <= seq <= seq_end
load_known_range(db, src, seq_start, seq_end) ==
    LET InRange(row) == /\ row.rec.dbkey.key.src = src
                        /\ row.rec.dbkey.seq >= seq_start
                        /\ row.rec.dbkey.seq <= seq_end
        rows == SelectSeq(db.label_records, InRange)
    IN  [i \in DOMAIN rows |-> rows[i].rec]

RowsWithKey(table, dbkey) ==
    LET Same(row) == row.rec.dbkey = dbkey
    IN  SelectSeq(table, Same)

\* insert as INSERT OR REPLACE: a key conflict overwrites the stored row
insert_or_replace(unique_key, table, rec, import_id, now) ==
    IF RowsWithKey(table, rec.dbkey) # <<>>
    THEN [i \in DOMAIN table |->
            IF table[i].rec.dbkey = rec.dbkey THEN Row(rec, import_id, now) ELSE table[i]]
    ELSE Append(table, Row(rec, import_id, now))

\* LabelRecord::insert: a constraint violation (a key conflict, where the
\* schema declares the key unique) leaves the table as it is
insert(unique_key, table, rec, import_id, now) ==
    IF unique_key /\ RowsWithKey(table, rec.dbkey) # <<>> THEN table
    ELSE Append(table, Row(rec, import_id, now))

\* update that keeps the stored row and adds the record as a new row
update_by_append(table, rec, import_id, now) ==
    Append(table, Row(rec, import_id, now))

\* LabelRecord::update: UPDATE ... WHERE (src, target_uri, val, seq) = key
update(table, rec, import_id, now) ==
    [i \in DOMAIN table |->
        IF table[i].rec.dbkey = rec.dbkey THEN Row(rec, import_id, now) ELSE table[i]]

\* LabelRecord::suspicious: the received record, logged with its problem
suspicious(sus, rec, problem, import_id, now) ==
    Append(sus, [problem_category |-> problem, rec |-> rec, import_id |-> import_id,
                 suspicion_timestamp |-> now, original_import_id |-> None])

\* suspicious_from_old_record that loses the import the stored row came from
suspicious_from_old_record_without_origin(sus, table, dbkey, problem, import_id, now) ==
    LET rows == RowsWithKey(table, dbkey)
    IN  sus \o [i \in DOMAIN rows |->
                  [problem_category |-> problem, rec |-> rows[i].rec, import_id |-> import_id,
                   suspicion_timestamp |-> now, original_import_id |-> None]]

\* LabelDbKey::suspicious_from_old_record: INSERT ... SELECT of the stored
\* row(s) with this key
suspicious_from_old_record(sus, table, dbkey, problem, import_id, now) ==
    LET rows == RowsWithKey(table, dbkey)
    IN  sus \o [i \in DOMAIN rows |->
                  [problem_category |-> problem, rec |-> rows[i].rec, import_id |-> import_id,
                   suspicion_timestamp |-> now,
                   original_import_id |-> Some(rows[i].import_id)]]

(***************************************************************************)
(* LabelStore (main.rs).  `self` is the struct without its connection:     *)
(* labeler_dids, suspicious_new_records, disappeared_negative_records,     *)
(* last_seq, disappeared_old_records, latest_create_timestamp.             *)
(***************************************************************************)
\* LabelStore::new
new_store ==
    [labeler_dids |-> EmptyMap,
     suspicious_new_records |-> 0,
     disappeared_negative_records |-> 0,
     last_seq |-> EmptyMap,
     disappeared_old_records |-> EmptyMap,
     latest_create_timestamp |-> None]

\* set_known_did that checks the set but does not seed it
set_known_did_unseeded(self, db, did) ==
    IF DOMAIN self.labeler_dids # {} THEN [ok |-> FALSE, self |-> self]
    ELSE [ok |-> TRUE, self |-> self]

\* LabelStore::set_known_did
set_known_did(self, db, did) ==
    IF DOMAIN self.labeler_dids # {} THEN [ok |-> FALSE, self |-> self]
    ELSE [ok |-> TRUE,
          self |-> [self EXCEPT !.labeler_dids = Put(@, did, seq_for_src(db, did))]]

\* the create timestamp of the last label of the batch instead of the
\* greatest one
max_create_timestamp_last(labels, latest) ==
    IF labels = <<>> THEN latest
    ELSE Some(labels[Len(labels)].create_timestamp)

\* process_labels: labels.iter().map(|l| &l.create_timestamp)
\*                   .chain(&self.latest_create_timestamp).max()
RECURSIVE max_create_timestamp(_, _)
max_create_timestamp(labels, latest) ==
    IF labels = <<>> THEN latest
    ELSE max_create_timestamp(Tail(labels),
            IF IsSome(latest) THEN Some(StrMax(Head(labels).create_timestamp, Unwrap(latest)))
            ELSE Some(Head(labels).create_timestamp))

\* itertools `.unique()`: the first occurrence of each element, in order
RECURSIVE unique(_)
unique(s) ==
    IF s = <<>> THEN <<>>
    ELSE LET r == unique(SubSeq(s, 1, Len(s) - 1))
         IN  IF s[Len(s)] \in Range(r) THEN r ELSE Append(r, s[Len(s)])

\* indexed_old_records.extend(records.map(|r| (r.dbkey.clone(), r)))
extend_indexed(indexed, recs) ==
    LET keys == {recs[i].dbkey : i \in DOMAIN recs}
    IN  [k \in (DOMAIN indexed) \cup keys |->
            IF k \in keys
            THEN recs[Max({i \in DOMAIN recs : recs[i].dbkey = k})]
            ELSE indexed[k]]

\* the loop over the batch's srcs looking the prior seq up anew for every
\* batch, also for a src that is already known
RECURSIVE src_loop_reseeding(_, _, _, _, _)
src_loop_reseeding(srcs, db, retreading, batch_seq, acc) ==
    IF srcs = <<>> THEN acc
    ELSE LET src == Head(srcs)
             dids == Put(acc.labeler_dids, src, seq_for_src(db, src))
             seq_start == IF src \in DOMAIN acc.last_seq THEN acc.last_seq[src] + 1 ELSE 0
             next == IF retreading
                     THEN [labeler_dids |-> dids,
                           last_seq |-> Put(acc.last_seq, src, batch_seq),
                           indexed_old_records |->
                               extend_indexed(acc.indexed_old_records,
                                              load_known_range(db, src, seq_start, batch_seq))]
                     ELSE [acc EXCEPT !.labeler_dids = dids]
         IN  src_loop_reseeding(Tail(srcs), db, retreading, batch_seq, next)

\* process_labels, `for src in &batch_src_dids`: acc carries labeler_dids,
\* last_seq and indexed_old_records
RECURSIVE src_loop(_, _, _, _, _)
src_loop(srcs, db, retreading, batch_seq, acc) ==
    IF srcs = <<>> THEN acc
    ELSE LET src == Head(srcs)
             dids == IF src \in DOMAIN acc.labeler_dids THEN acc.labeler_dids
                     ELSE Put(acc.labeler_dids, src, seq_for_src(db, src))
             seq_start == IF src \in DOMAIN acc.last_seq THEN acc.last_seq[src] + 1 ELSE 0
             next == IF retreading
                     THEN [labeler_dids |-> dids,
                           last_seq |-> Put(acc.last_seq, src, batch_seq),
                           indexed_old_records |->
                               extend_indexed(acc.indexed_old_records,
                                              load_known_range(db, src, seq_start, batch_seq))]
                     ELSE [acc EXCEPT !.labeler_dids = dids]
         IN  src_loop(Tail(srcs), db, retreading, batch_seq, next)

\* the loop over the received labels with case 4 handled like case 1: the
\* label is inserted and nothing is logged
RECURSIVE label_loop_new_unlogged(_, _, _)
label_loop_new_unlogged(labels, labeler_dids, acc) ==
    IF labels = <<>> THEN acc
    ELSE LET new_label == Head(labels)
             k == new_label.dbkey
             next ==
               IF labeler_dids[k.key.src] < k.seq
               THEN [acc EXCEPT !.insert_labels = Append(@, new_label)]
               ELSE IF k \in DOMAIN acc.indexed_old_records
               THEN IF acc.indexed_old_records[k] = new_label
                    THEN [acc EXCEPT !.indexed_old_records = Remove(@, k),
                                     !.update_labels = Append(@, new_label)]
                    ELSE [acc EXCEPT !.indexed_old_records = Remove(@, k),
                                     !.suspicious_old_records = Append(@, <<k, "replaced">>),
                                     !.suspicious_new_records = Append(@, <<new_label, "replacing">>),
                                     !.update_labels = Append(@, new_label),
                                     !.self_suspicious_new_records = @ + 1]
               ELSE [acc EXCEPT !.insert_labels = Append(@, new_label)]
         IN  label_loop_new_unlogged(Tail(labels), labeler_dids, next)

\* the loop over the received labels without case 1: a label of a seq
\* beyond the stored ones is compared with the old records like any other
RECURSIVE label_loop_without_case1(_, _, _)
label_loop_without_case1(labels, labeler_dids, acc) ==
    IF labels = <<>> THEN acc
    ELSE LET new_label == Head(labels)
             k == new_label.dbkey
             next ==
               IF k \in DOMAIN acc.indexed_old_records
               THEN IF acc.indexed_old_records[k] = new_label
                    THEN [acc EXCEPT !.indexed_old_records = Remove(@, k),
                                     !.update_labels = Append(@, new_label)]
                    ELSE [acc EXCEPT !.indexed_old_records = Remove(@, k),
                                     !.suspicious_old_records = Append(@, <<k, "replaced">>),
                                     !.suspicious_new_records = Append(@, <<new_label, "replacing">>),
                                     !.update_labels = Append(@, new_label),
                                     !.self_suspicious_new_records = @ + 1]
               ELSE [acc EXCEPT !.suspicious_new_records = Append(@, <<new_label, "new">>),
                                !.insert_labels = Append(@, new_label)]
         IN  label_loop_without_case1(Tail(labels), labeler_dids, next)

\* process_labels, `for new_label in labels`: the five scenarios, cases 1-4
RECURSIVE label_loop(_, _, _)
label_loop(labels, labeler_dids, acc) ==
    IF labels = <<>> THEN acc
    ELSE LET new_label == Head(labels)
             k == new_label.dbkey
             next ==
               IF labeler_dids[k.key.src] < k.seq
               THEN \* case 1
                    [acc EXCEPT !.insert_labels = Append(@, new_label)]
               ELSE IF k \in DOMAIN acc.indexed_old_records
               THEN IF acc.indexed_old_records[k] = new_label
                    THEN \* case 2
                         [acc EXCEPT !.indexed_old_records = Remove(@, k),
                                     !.update_labels = Append(@, new_label)]
                    ELSE \* case 3
                         [acc EXCEPT !.indexed_old_records = Remove(@, k),
                                     !.suspicious_old_records = Append(@, <<k, "replaced">>),
                                     !.suspicious_new_records = Append(@, <<new_label, "replacing">>),
                                     !.update_labels = Append(@, new_label),
                                     !.self_suspicious_new_records = @ + 1]
               ELSE \* case 4
                    [acc EXCEPT !.suspicious_new_records = Append(@, <<new_label, "new">>),
                                !.insert_labels = Append(@, new_label)]
         IN  label_loop(Tail(labels), labeler_dids, next)

\* process_labels, `for disappeared in indexed_old_records.into_values()`:
\* case 5.  order is the order in which the HashMap yields its values.
RECURSIVE disappeared_loop(_, _, _, _)
disappeared_loop(order, indexed, now, acc) ==
    IF order = <<>> THEN acc
    ELSE LET disappeared == indexed[Head(order)]
             key == disappeared.dbkey.key
             next ==
               IF disappeared.neg
               THEN IF /\ key \in DOMAIN acc.disappeared_old_records
                       /\ is_expired(acc.disappeared_old_records[key], now)
                    THEN [acc EXCEPT !.disappeared_old_records = Remove(@, key)]
                    ELSE [acc EXCEPT !.suspicious_old_records =
                                          Append(@, <<disappeared.dbkey, "disappeared-while-effective">>),
                                     !.disappeared_negative_records = @ + 1]
               ELSE [acc EXCEPT !.disappeared_old_records = Put(@, key, disappeared)]
         IN  disappeared_loop(Tail(order), indexed, now, next)

\* the writes of the transaction, in the order of the four loops
RECURSIVE write_suspicious_old(_, _, _, _)
write_suspicious_old(entries, sus, table, now) ==
    IF entries = <<>> THEN sus
    ELSE write_suspicious_old(Tail(entries),
            suspicious_from_old_record(sus, table, Head(entries)[1], Head(entries)[2], ImportId, now),
            table, now)

RECURSIVE write_suspicious_new(_, _, _)
write_suspicious_new(entries, sus, now) ==
    IF entries = <<>> THEN sus
    ELSE write_suspicious_new(Tail(entries),
            suspicious(sus, Head(entries)[1], Head(entries)[2], ImportId, now), now)

RECURSIVE write_updates(_, _, _)
write_updates(recs, table, now) ==
    IF recs = <<>> THEN table
    ELSE write_updates(Tail(recs), update(table, Head(recs), ImportId, now), now)

RECURSIVE write_inserts(_, _, _, _)
write_inserts(recs, unique_key, table, now) ==
    IF recs = <<>> THEN table
    ELSE write_inserts(Tail(recs), unique_key,
                       insert(unique_key, table, Head(recs), ImportId, now), now)

\* "more than 1 label record ... by a single key": suspicious_from_old_record
\* and update bail when a key matches several rows
several_rows(table, acc) ==
    \/ \E i \in DOMAIN acc.suspicious_old_records :
          Len(RowsWithKey(table, acc.suspicious_old_records[i][1])) > 1
    \/ \E i \in DOMAIN acc.update_labels :
          Len(RowsWithKey(table, acc.update_labels[i].dbkey)) > 1

\* process_labels up to the end of `for new_label in labels`
process_received(self, db, labels, retreading) ==
    LET batch_seq == Head(labels).dbkey.seq
        batch_src_dids == unique([i \in DOMAIN labels |-> labels[i].dbkey.key.src])
        per_src == src_loop(batch_src_dids, db, retreading, batch_seq,
                            [labeler_dids |-> self.labeler_dids,
                             last_seq |-> self.last_seq,
                             indexed_old_records |-> EmptyMap])
    IN  [per_src |-> per_src,
         acc |-> label_loop(labels, per_src.labeler_dids,
                    [indexed_old_records |-> per_src.indexed_old_records,
                     suspicious_old_records |-> <<>>,
                     suspicious_new_records |-> <<>>,
                     update_labels |-> <<>>,
                     insert_labels |-> <<>>,
                     self_suspicious_new_records |-> self.suspicious_new_records])]

\* the stored records of the batch's range that no received label matched:
\* what `indexed_old_records.into_values()` iterates, in an order of its own
old_records_left(self, db, labels, retreading) ==
    IF labels = <<>> THEN {}
    ELSE DOMAIN process_received(self, db, labels, retreading).acc.indexed_old_records

\* process_labels writing straight to the connection, with no transaction:
\* what was written before the failing insert stays
process_labels_without_transaction(self, db, labels, now, retreading, order, write_fails) ==
    IF labels = <<>> THEN [ok |-> TRUE, self |-> self, db |-> db]
    ELSE LET recv == process_received(self, db, labels, retreading)
             gone == disappeared_loop(order, recv.acc.indexed_old_records, now,
                        [disappeared_old_records |-> self.disappeared_old_records,
                         disappeared_negative_records |-> self.disappeared_negative_records,
                         suspicious_old_records |-> recv.acc.suspicious_old_records])
             self2 == [labeler_dids |-> recv.per_src.labeler_dids,
                       suspicious_new_records |-> recv.acc.self_suspicious_new_records,
                       disappeared_negative_records |-> gone.disappeared_negative_records,
                       last_seq |-> recv.per_src.last_seq,
                       disappeared_old_records |-> gone.disappeared_old_records,
                       latest_create_timestamp |->
                           max_create_timestamp(labels, self.latest_create_timestamp)]
             writes == [recv.acc EXCEPT !.suspicious_old_records = gone.suspicious_old_records]
             sus == write_suspicious_new(writes.suspicious_new_records,
                        write_suspicious_old(writes.suspicious_old_records,
                                             db.suspicious_records, db.label_records, now),
                        now)
             updated == write_updates(writes.update_labels, db.label_records, now)
             table == write_inserts(writes.insert_labels, db.unique_key, updated, now)
         IN  IF several_rows(db.label_records, writes)
             THEN [ok |-> FALSE, err |-> "several_rows", self |-> self2, db |-> db]
             ELSE IF write_fails
             THEN [ok |-> FALSE, err |-> "storage_error", self |-> self2,
                   db |-> [db EXCEPT !.label_records = updated, !.suspicious_records = sus]]
             ELSE [ok |-> TRUE, self |-> self2,
                   db |-> [db EXCEPT !.label_records = table, !.suspicious_records = sus]]

\* LabelStore::process_labels.  order: the iteration order of the left-over
\* old records; write_fails: a write of the transaction returns an error.
process_labels(self, db, labels, now, retreading, order, write_fails) ==
    IF labels = <<>> THEN [ok |-> TRUE, self |-> self, db |-> db]
    ELSE LET recv == process_received(self, db, labels, retreading)
             gone == disappeared_loop(order, recv.acc.indexed_old_records, now,
                        [disappeared_old_records |-> self.disappeared_old_records,
                         disappeared_negative_records |-> self.disappeared_negative_records,
                         suspicious_old_records |-> recv.acc.suspicious_old_records])
             self2 == [labeler_dids |-> recv.per_src.labeler_dids,
                       suspicious_new_records |-> recv.acc.self_suspicious_new_records,
                       disappeared_negative_records |-> gone.disappeared_negative_records,
                       last_seq |-> recv.per_src.last_seq,
                       disappeared_old_records |-> gone.disappeared_old_records,
                       latest_create_timestamp |->
                           max_create_timestamp(labels, self.latest_create_timestamp)]
             writes == [recv.acc EXCEPT !.suspicious_old_records = gone.suspicious_old_records]
             sus == write_suspicious_new(writes.suspicious_new_records,
                        write_suspicious_old(writes.suspicious_old_records,
                                             db.suspicious_records, db.label_records, now),
                        now)
             table == write_inserts(writes.insert_labels, db.unique_key,
                          write_updates(writes.update_labels, db.label_records, now), now)
         IN  IF several_rows(db.label_records, writes)
             THEN [ok |-> FALSE, err |-> "several_rows", self |-> self2, db |-> db]
             ELSE IF write_fails
             THEN [ok |-> FALSE, err |-> "storage_error", self |-> self2, db |-> db]
             ELSE [ok |-> TRUE, self |-> self2,
                   db |-> [db EXCEPT !.label_records = table, !.suspicious_records = sus]]

\* LabelStore::finalize, what it prints before it ends: the latest create
\* timestamp, the source dids, the disappeared records (when there are any)
\* and the two counters (when positive)
finalize_summary(self) ==
    [latest_create_timestamp |-> self.latest_create_timestamp,
     labeler_dids |-> DOMAIN self.labeler_dids,
     disappeared_old_records |-> Range(self.disappeared_old_records),
     disappeared_negative_records |-> self.disappeared_negative_records,
     suspicious_new_records |-> self.suspicious_new_records]

\* LabelStore::finalize prints the summary and ends in todo!("summarize"),
\* which panics on every path: it never returns Ok.
finalize(self) == "panic"

(***************************************************************************)
(* What the peer and the command line can supply.                          *)
(***************************************************************************)
Timeouts == (-1)..MaxTimeout

\* the parsed GetCmd: Lookup(handle_or_did, retread) or Direct, each with
\* the common --stream-timeout
Args ==
    {[cmd |-> "lookup", did |-> "did:a", retread |-> r, stream_timeout |-> t] :
        r \in BOOLEAN, t \in Timeouts}
    \cup {[cmd |-> "direct", did |-> "did:a", retread |-> FALSE, stream_timeout |-> t] :
        t \in Timeouts}

\* two create timestamps, CtsOld < CtsNew as strings: the shorter one is
\* the greater
CtsOld == <<1, 9>>
CtsNew == <<2>>

\* labels of version 1, and labels the decoder rejects
GoodLabels ==
    {WireLabel(Some(1), "did:a", None, None, CtsOld),
     WireLabel(Some(1), "did:a", Some(TRUE), None, CtsNew),
     WireLabel(Some(1), "did:b", None, None, CtsOld)}
BadLabels ==
    {WireLabel(Some(2), "did:a", None, None, CtsOld),
     WireLabel(None, "did:a", None, None, CtsOld)}

SeqsOver(S, n) == UNION {[1..k -> S] : k \in 0..n}
NoRepeat(s) == \A i, j \in DOMAIN s : s[i] = s[j] => i = j

\* bodies: a #labels body, an #info body, an error body, undecodable bytes
LabelsBody(seq, labels) == [kind |-> "labels", seq |-> seq, labels |-> labels]
InfoBody == [kind |-> "info"]
ErrorBody == [kind |-> "error", error |-> "ConsumerTooSlow", message |-> Some("catch up")]
GarbageBody == [kind |-> "garbage"]

GoodBatches == {ls \in SeqsOver(GoodLabels, MaxLabels) : NoRepeat(ls)}
\* batches with a label of another version: alone, after and before a good one
BadBatches ==
    {<<b>> : b \in BadLabels}
    \cup {<<g, b>> : g \in GoodLabels, b \in {WireLabel(Some(2), "did:a", None, None, CtsOld)}}
    \cup {<<b, g>> : g \in {WireLabel(Some(1), "did:a", None, None, CtsOld)},
                     b \in {WireLabel(Some(2), "did:a", None, None, CtsOld)}}

\* bodies whose seq lies at the ends of the i64 range
BoundaryBodies ==
    {LabelsBody(-1, <<WireLabel(Some(1), "did:a", None, None, CtsOld)>>),
     LabelsBody(0, <<WireLabel(Some(1), "did:a", None, None, CtsOld)>>),
     LabelsBody(I64_MAX - 1, <<WireLabel(Some(1), "did:a", None, None, CtsOld)>>),
     LabelsBody(I64_MAX, <<>>)}

LabelsBodies ==
    {LabelsBody(seq, ls) : seq \in 1..MaxSeq, ls \in GoodBatches}
    \cup {LabelsBody(1, ls) : ls \in BadBatches}
    \cup {LabelsBody(0, <<>>)}
    \cup BoundaryBodies

Header(op, t, error) == [op |-> op, t |-> t, error |-> error, message |-> None]
LabelsHeader == Header(1, Some("#labels"), None)
InfoHeader == Header(1, Some("#info"), None)
OtherHeaders ==
    {Header(1, Some("#other"), None),
     Header(1, None, None),
     Header(-1, None, None),
     Header(-1, Some("#labels"), None),
     Header(-1, Some("#labels"), Some("FutureCursor")),
     Header(2, Some("#labels"), None)}

Binary(header, body, extra) ==
    [kind |-> "binary", header |-> header, body |-> body, extra |-> extra]

\* frames without trailing bytes, and frames with one byte after the body
BinaryFrames ==
    {Binary(LabelsHeader, b, 0) : b \in LabelsBodies \cup {GarbageBody, InfoBody}}
    \cup {Binary(LabelsHeader, b, 1) : b \in {c \in LabelsBodies : Len(c.labels) <= 1}}
    \cup {Binary(InfoHeader, b, e) : b \in {InfoBody, GarbageBody}, e \in {0, 1}}
    \cup {Binary(h, ErrorBody, 0) : h \in OtherHeaders}

NoMessage == [kind |-> "none"]

\* rows that earlier runs left in label_records
PriorRow(src, seq, neg, cts) ==
    Row([dbkey |-> LabelDbKey(LabelKey(src, "at:x", "spam"), seq),
         target_cid |-> None, create_timestamp |-> cts,
         expiry_timestamp |-> None, neg |-> neg],
        PriorImportId, PriorSeen)
PriorTables ==
    {<<>>,
     <<PriorRow("did:a", 1, FALSE, CtsOld)>>,
     <<PriorRow("did:a", 1, FALSE, CtsOld), PriorRow("did:a", 2, TRUE, CtsNew)>>,
     <<PriorRow("did:a", 1, FALSE, CtsOld), PriorRow("did:a", 1, TRUE, CtsNew)>>}

\* rows of an earlier run in which a label with an expiry was negated and
\* then applied again: seq 1 positive with the expiry, seq 2 the negation,
\* seq 3 positive
PriorRowExpiring(exp) ==
    [PriorRow("did:a", 1, FALSE, CtsOld) EXCEPT !.rec.expiry_timestamp = exp]
Expiries == {None, Some("past"), Some("now"), Some("future"), Some("garbage")}
ExpiringTables ==
    {<<PriorRowExpiring(exp), PriorRow("did:a", 2, TRUE, CtsNew),
       PriorRow("did:a", 3, FALSE, CtsOld)>> : exp \in Expiries}

\* rows of an earlier run that stored seq 2 of the src and not seq 1
GapTables == {<<PriorRow("did:a", 2, FALSE, CtsOld)>>}

\* the databases earlier runs can have left: under a unique key no two rows
\* share their db key
PriorDbs ==
    {d \in [label_records : PriorTables, suspicious_records : {<<>>},
            unique_key : KeyConstraints] :
        d.unique_key => \A i, j \in DOMAIN d.label_records :
                            d.label_records[i].rec.dbkey = d.label_records[j].rec.dbkey => i = j}

(***************************************************************************)
(* The session: GetCmd::go.                                                *)
(***************************************************************************)
VARIABLES
    args,           \* the parsed command line
    pc,             \* where go() is: start, connecting, streaming, done
    result,         \* running, or how go() ended: Ok, Err, panic
    retreading,     \* go's `retreading`
    cursor,         \* go's `cursor`, the ?cursor= of the subscription
    connects,       \* calls of connect_async so far
    sleep_duration, \* go's `sleep_duration`
    elapsed,        \* ticks since this iteration's timer and read were created
    socket,         \* the read half: none, open, ended
    delivered,      \* messages the socket has yielded
    message,        \* go's `message`: the last item the read yielded
    outcome,        \* what the loop body did with it
    self,           \* the LabelStore
    db,             \* the database behind it
    finalized,      \* finalize() was called
    processed       \* seqs of the #labels frames process_labels returned Ok for

vars == <<args, pc, result, retreading, cursor, connects, sleep_duration, elapsed,
          socket, delivered, message, outcome, self, db, finalized, processed>>

Init ==
    /\ args \in Args
    /\ db \in PriorDbs
    /\ pc = "start"
    /\ result = "running"
    /\ retreading = FALSE
    /\ cursor = 0
    /\ connects = 0
    /\ sleep_duration = None
    /\ elapsed = 0
    /\ socket = "none"
    /\ delivered = 0
    /\ message = NoMessage
    /\ outcome = "none"
    /\ self = new_store
    /\ finalized = FALSE
    /\ processed = <<>>

\* a retreading session over a database with an expiring label
ExpiryInit ==
    /\ args \in {a \in Args : a.stream_timeout = MaxTimeout /\ (a.cmd = "lookup" => a.retread)}
    /\ db \in [label_records : ExpiringTables, suspicious_records : {<<>>},
                unique_key : KeyConstraints]
    /\ pc = "start"
    /\ result = "running"
    /\ retreading = FALSE
    /\ cursor = 0
    /\ connects = 0
    /\ sleep_duration = None
    /\ elapsed = 0
    /\ socket = "none"
    /\ delivered = 0
    /\ message = NoMessage
    /\ outcome = "none"
    /\ self = new_store
    /\ finalized = FALSE
    /\ processed = <<>>

\* a session over a database that holds seq 2 of the src and not seq 1
GapInit ==
    /\ args \in Args
    /\ db \in [label_records : GapTables, suspicious_records : {<<>>},
                unique_key : KeyConstraints]
    /\ pc = "start"
    /\ result = "running"
    /\ retreading = FALSE
    /\ cursor = 0
    /\ connects = 0
    /\ sleep_duration = None
    /\ elapsed = 0
    /\ socket = "none"
    /\ delivered = 0
    /\ message = NoMessage
    /\ outcome = "none"
    /\ self = new_store
    /\ finalized = FALSE
    /\ processed = <<>>

Loop == <<args, retreading, cursor, connects, sleep_duration, finalized>>

\* go() returns Err: a `?` or a bail!
ReturnErr(why) ==
    /\ pc' = "done"
    /\ result' = "Err"
    /\ outcome' = why

\* the Lookup arm resuming from the stored seq even with --retread
LookupResumes ==
    /\ pc = "start"
    /\ args.cmd = "lookup"
    /\ LET known == set_known_did(self, db, args.did)
       IN  /\ self' = known.self
           /\ retreading' = args.retread
           /\ cursor' = seq_for_src(db, args.did)
    /\ pc' = "connecting"
    /\ UNCHANGED <<args, result, connects, sleep_duration, elapsed, socket, delivered,
                   message, outcome, db, finalized, processed>>

\* go(), GetCmd::Lookup arm: seed the did, choose the cursor
Lookup ==
    /\ pc = "start"
    /\ args.cmd = "lookup"
    /\ LET known == set_known_did(self, db, args.did)
       IN  /\ self' = known.self
           /\ retreading' = args.retread
           /\ cursor' = IF args.retread THEN 0 ELSE seq_for_src(db, args.did)
    /\ pc' = "connecting"
    /\ UNCHANGED <<args, result, connects, sleep_duration, elapsed, socket, delivered,
                   message, outcome, db, finalized, processed>>

\* go(), GetCmd::Direct arm
Direct ==
    /\ pc = "start"
    /\ args.cmd = "direct"
    /\ retreading' = TRUE
    /\ cursor' = 0
    /\ pc' = "connecting"
    /\ UNCHANGED <<args, result, connects, sleep_duration, elapsed, socket, delivered,
                   message, outcome, self, db, finalized, processed>>

\* a `?` or bail! before the connection: the did or its document cannot be
\* resolved, the entity is no labeler, the endpoint is no url
SetupFails ==
    /\ pc = "start"
    /\ ReturnErr("setup_error")
    /\ UNCHANGED <<args, retreading, cursor, connects, sleep_duration, elapsed, socket,
                   delivered, message, self, db, finalized, processed>>

\* connect_async(&address).await succeeds; the loop is entered
Connect ==
    /\ pc = "connecting"
    /\ connects' = connects + 1
    /\ socket' = "open"
    /\ sleep_duration' = sleep_duration_of(args.stream_timeout)
    /\ elapsed' = 0
    /\ pc' = "streaming"
    /\ UNCHANGED <<args, result, retreading, cursor, delivered, message, outcome,
                   self, db, finalized, processed>>

\* connect_async(&address).await?
ConnectFails ==
    /\ pc = "connecting"
    /\ connects' = connects + 1
    /\ ReturnErr("connect_error")
    /\ UNCHANGED <<args, retreading, cursor, sleep_duration, elapsed, socket, delivered,
                   message, self, db, finalized, processed>>

\* time passes while the read is pending: the peer is silent
Tick ==
    /\ pc = "streaming"
    /\ socket = "open"
    /\ elapsed < (IF IsSome(sleep_duration) THEN Unwrap(sleep_duration) ELSE MaxGap)
    /\ elapsed' = elapsed + 1
    /\ UNCHANGED <<args, pc, result, retreading, cursor, connects, sleep_duration, socket,
                   delivered, message, outcome, self, db, finalized, processed>>

\* select!: `Some(()) = conditional_sleep(timeout)` completes first
Idle ==
    /\ pc = "streaming"
    /\ IsSome(sleep_duration)
    /\ elapsed >= Unwrap(sleep_duration)
    /\ finalized' = TRUE
    /\ result' = finalize(self)
    /\ pc' = "done"
    /\ outcome' = "idle"
    /\ UNCHANGED <<args, retreading, cursor, connects, sleep_duration, elapsed, socket,
                   delivered, message, self, db, processed>>

\* the read yields the next message of the peer
Yields(msg) ==
    /\ pc = "streaming"
    /\ socket = "open"
    /\ delivered < MaxFrames
    /\ delivered' = delivered + 1
    /\ message' = msg
    /\ elapsed' = 0

\* the loop body that takes bytes left after the body for an error
ContinueUnlessTrailing(what) ==
    IF what \in {"labels_extra", "info_extra"}
    THEN ReturnErr("trailing_bytes")
    ELSE /\ outcome' = what
         /\ UNCHANGED <<pc, result>>

\* the loop body ends and the next iteration begins
Continue(what) ==
    /\ outcome' = what
    /\ UNCHANGED <<pc, result>>

\* a loop body that bails on a text message
RecvTextBails ==
    /\ Yields([kind |-> "text"])
    /\ ReturnErr("text")
    /\ UNCHANGED <<Loop, socket, self, db, processed>>

\* Message::Text(text) => println!
RecvText ==
    /\ Yields([kind |-> "text"])
    /\ Continue("text")
    /\ UNCHANGED <<Loop, socket, self, db, processed>>

\* `_ => {}`: ping, pong
RecvOther ==
    /\ Yields([kind |-> "ping"])
    /\ Continue("ignored")
    /\ UNCHANGED <<Loop, socket, self, db, processed>>

\* `_ => {}`: Message::Close; the stream has ended after it
RecvClose ==
    /\ Yields([kind |-> "close"])
    /\ Continue("ignored")
    /\ socket' = "ended"
    /\ UNCHANGED <<Loop, self, db, processed>>

\* message.map_err(...)?: the read yields Some(Err(e))
RecvError ==
    /\ Yields([kind |-> "transport_error"])
    /\ ReturnErr("transport_error")
    /\ UNCHANGED <<Loop, socket, self, db, processed>>

\* `let Some(msg) = websocket_frame else { continue; }`: the ended stream
\* yields None at once, and the loop starts over
RecvNone ==
    /\ pc = "streaming"
    /\ socket = "ended"
    /\ elapsed' = 0
    /\ Continue("continue")
    /\ UNCHANGED <<Loop, socket, delivered, message, self, db, processed>>

\* Message::Binary(bin)
RecvBinary ==
    \E frame \in BinaryFrames :
      /\ Yields(frame)
      /\ LET ty == header_type(frame.header)
             labels == from_subscription_record(frame.body)
         IN  IF ~ty.ok
             THEN /\ ReturnErr(ty.err)
                  /\ UNCHANGED <<self, db, processed>>
             ELSE IF ty.ty = "#labels"
             THEN IF ~labels.ok
                  THEN /\ ReturnErr("labels_decode")
                       /\ UNCHANGED <<self, db, processed>>
                  ELSE \E order \in Perms(old_records_left(self, db, labels.labels, retreading)),
                          write_fails \in BOOLEAN :
                         LET done == process_labels(self, db, labels.labels, Now,
                                                    retreading, order, write_fails)
                         IN  /\ self' = done.self
                             /\ db' = done.db
                             /\ IF done.ok
                                THEN /\ Continue(IF frame.extra > 0 THEN "labels_extra" ELSE "labels")
                                     /\ processed' = Append(processed, frame.body.seq)
                                ELSE /\ ReturnErr(done.err)
                                     /\ UNCHANGED processed
             ELSE IF ty.ty = "#info"
             THEN /\ IF frame.body.kind = "info"
                     THEN Continue(IF frame.extra > 0 THEN "info_extra" ELSE "info")
                     ELSE ReturnErr("info_decode")
                  /\ UNCHANGED <<self, db, processed>>
             ELSE /\ ReturnErr("unknown_type")
                  /\ UNCHANGED <<self, db, processed>>
      /\ UNCHANGED <<Loop, socket>>

Next ==
    \/ Lookup
    \/ Direct
    \/ SetupFails
    \/ Connect
    \/ ConnectFails
    \/ Tick
    \/ Idle
    \/ RecvText
    \/ RecvOther
    \/ RecvClose
    \/ RecvError
    \/ RecvNone
    \/ RecvBinary

Spec == Init /\ [][Next]_vars

ExpirySpec == ExpiryInit /\ [][Next]_vars

GapSpec == GapInit /\ [][Next]_vars

\* the scheduler keeps running the task: a step that can be taken is taken
FairSpec == Spec /\ WF_vars(Next)

(***************************************************************************)
(* Properties of the session.                                              *)
(***************************************************************************)
\* an error frame of the event stream: op = -1 and no t
PeerErrorFrame(msg) ==
    /\ msg.kind = "binary"
    /\ msg.header.op = -1
    /\ msg.header.t = None

\* a #labels frame whose body decodes up to the labels
LabelsFrame(msg) ==
    /\ msg.kind = "binary"
    /\ msg.header = LabelsHeader
    /\ msg.body.kind = "labels"

\* the step takes a message from the socket and runs the loop body on it
Handles == delivered' = delivered + 1

\* C1: the seqs of the #labels frames that were processed successfully are
\* strictly increasing: of two processed frames the later has the greater seq.
C1_SeqMonotonic ==
    \A i, j \in DOMAIN processed : i < j => processed[i] < processed[j]

\* C2: once #labels frames have been processed, the cursor of the session
\* is the greatest seq among them.
C2_CursorIsMaxSeq ==
    processed # <<>> => cursor = Max(Range(processed))

\* C3: with a positive stream_timeout, a session that took the idle branch
\* has run finalize and ended Ok.
C3_IdleEndsOk ==
    (args.stream_timeout > 0 /\ outcome = "idle") => (finalized /\ result = "Ok")

\* C4: once the stream has ended (a close frame was read, reads report
\* end-of-stream), the session eventually leaves the streaming loop.
C4_ClosedLeavesStreaming ==
    (socket = "ended") ~> (pc # "streaming")

\* C5: with stream_timeout <= 0 the idle branch is never taken.
C5_NonPositiveNeverIdles ==
    args.stream_timeout <= 0 => outcome # "idle"

\* C6: a transport error or a peer error frame does not end the session
\* with an error while retries remain: after the first connection's error
\* the session is still running (it reconnects at the current cursor).
C6_ErrorIsNotFatalToSession ==
    ((message.kind = "transport_error" \/ PeerErrorFrame(message)) /\ connects <= 1)
        => ~(pc = "done" /\ result = "Err")

\* C7: a session whose streaming episode ended in an error retries, and once
\* the retries without progress are used up it goes on to finalize: no
\* session is over after such an episode without a further connection
\* attempt and without finalize having been called.
C7_ErrorEpisodesEndInFinalize ==
    (pc = "done" /\ outcome \in {"transport_error", "peer_error", "header_decode"})
        => (finalized /\ connects > 1)

\* C8: header classification: op = 1 with t = s gives the type s; op = -1
\* without t is reported as the peer's error frame; any other op is an
\* error of the header, never a message type.
C8_HeaderShapes ==
    (message.kind = "binary" /\ outcome # "continue") =>
        /\ (message.header.op = 1 /\ IsSome(message.header.t))
               => outcome \notin {"peer_error", "header_decode"}
        /\ PeerErrorFrame(message) => outcome = "peer_error"
        /\ message.header.op \notin {1, -1} => outcome \in {"peer_error", "header_decode"}

\* C9: a binary frame with a valid header (op = 1) whose type is neither
\* #labels nor #info is logged and skipped: the store and the session state
\* are unchanged and the session keeps streaming.
C9_UnknownTypeIsSkipped ==
    [][(Handles /\ message'.kind = "binary" /\ message'.header.op = 1
          /\ IsSome(message'.header.t)
          /\ Unwrap(message'.header.t) \notin {"#labels", "#info"})
       => (pc' = "streaming" /\ self' = self /\ db' = db)]_vars

\* C10: a #labels frame with a label whose version is not 1 (or is missing)
\* is rejected with a decode error and without side effects: process_labels
\* is not called for any label of the frame, and the database and every
\* field of the store are as before.
C10_VersionRejectNoSideEffects ==
    [][(Handles /\ LabelsFrame(message')
          /\ \E i \in DOMAIN message'.body.labels : message'.body.labels[i].ver # Some(1))
       => (/\ outcome' = "labels_decode"
           /\ result' = "Err"
           /\ self' = self
           /\ db' = db
           /\ processed' = processed)]_vars

\* a frame with a valid label before the label of version 2 was rejected
C10_Witness ==
    /\ outcome = "labels_decode"
    /\ LabelsFrame(message)
    /\ Len(message.body.labels) = 2
    /\ message.body.labels[1].ver = Some(1)
    /\ message.body.labels[2].ver = Some(2)

\* all labels of the message's body are of version 1
AllVersionOne(msg) ==
    \A i \in DOMAIN msg.body.labels : msg.body.labels[i].ver = Some(1)

\* C11: the #labels body decoder accepts a frame (whose labels are all of
\* version 1) exactly if 0 < seq < i64::MAX: with seq = 0, a negative seq or
\* seq = i64::MAX the frame ends in a decode error, with seq = 1 or
\* seq = i64::MAX - 1 it does not.
C11_SeqRange ==
    [][(Handles /\ LabelsFrame(message') /\ AllVersionOne(message'))
       => /\ (outcome' = "labels_decode")
                <=> ~(0 < message'.body.seq /\ message'.body.seq < I64_MAX)
          /\ message'.body.seq \in {0, -1, I64_MAX} => outcome' = "labels_decode"
          /\ message'.body.seq \in {1, I64_MAX - 1} => outcome' # "labels_decode"]_vars

\* the frame with seq = i64::MAX - 1 was processed, the one with
\* seq = i64::MAX was then rejected
C11_Witness ==
    /\ processed = <<I64_MAX - 1>>
    /\ LabelsFrame(message)
    /\ message.body.seq = I64_MAX
    /\ outcome = "labels_decode"

Processes == processed' # processed

\* the db keys of the rows of a table, and of the labels of a #labels body
RowKeys(table) == {table[i].rec.dbkey : i \in DOMAIN table}
BodyKeys(body) ==
    {LabelDbKey(LabelKey(body.labels[i].src, body.labels[i].uri, body.labels[i].val), body.seq) :
        i \in DOMAIN body.labels}

BodySrcs(body) == {body.labels[i].src : i \in DOMAIN body.labels}

\* C14: in lookup mode labeler_dids holds the resolved did from before the
\* connection on; after a process_labels call that returned Ok it holds the
\* src of every label of the batch; and no step removes a did from it (so
\* it holds the src of every label processed so far).
C14_LabelerDidsGrow ==
    [][/\ (args.cmd = "lookup" /\ pc' \in {"connecting", "streaming"})
            => args.did \in DOMAIN self'.labeler_dids
       /\ (args.cmd = "lookup" /\ delivered' > 0) => args.did \in DOMAIN self'.labeler_dids
       /\ Processes => BodySrcs(message'.body) \subseteq DOMAIN self'.labeler_dids
       /\ DOMAIN self.labeler_dids \subseteq DOMAIN self'.labeler_dids]_vars

\* lookup mode: a batch of did:b was processed, then an empty one; the set
\* holds the seeded did:a and did:b
C14_Witness ==
    /\ args.cmd = "lookup"
    /\ Len(processed) = 2
    /\ LabelsFrame(message)
    /\ message.body.labels = <<>>
    /\ DOMAIN self.labeler_dids = {"did:a", "did:b"}

\* the step calls process_labels with the labels of message', at least one
CallsProcessLabels ==
    /\ Handles
    /\ outcome' \in {"labels", "labels_extra", "storage_error", "several_rows"}
    /\ message'.body.labels # <<>>

\* the create timestamps process_labels has taken the maximum of, after
\* the step
SeenCts ==
    {message'.body.labels[i].cts : i \in DOMAIN message'.body.labels}
        \cup Range(self.latest_create_timestamp)

\* C15: latest_create_timestamp is the greatest create timestamp, as a
\* string, of the labels process_labels was called with so far: a call
\* with labels sets it to the greatest among the batch's timestamps and its
\* earlier value, every other step leaves it as it is (None from the start),
\* and so it never decreases.
C15_LatestCreateTimestamp ==
    [][IF CallsProcessLabels
       THEN /\ IsSome(self'.latest_create_timestamp)
            /\ Unwrap(self'.latest_create_timestamp) \in SeenCts
            /\ \A c \in SeenCts : ~StrLess(Unwrap(self'.latest_create_timestamp), c)
       ELSE self'.latest_create_timestamp = self.latest_create_timestamp]_vars

\* the second batch carried only the older timestamp, after the greater
\* one: the latest create timestamp is still the greater one
C15_Witness ==
    /\ Len(processed) = 2
    /\ LabelsFrame(message)
    /\ message.body.labels # <<>>
    /\ \A i \in DOMAIN message.body.labels : message.body.labels[i].cts = CtsOld
    /\ self.latest_create_timestamp = Some(CtsNew)

\* the expiry of the record is a time that has passed: it parses, to a
\* time <= now
Expired(rec, now) ==
    /\ IsSome(rec.expiry_timestamp)
    /\ IsSome(parse_datetime(Unwrap(rec.expiry_timestamp)))
    /\ Unwrap(parse_datetime(Unwrap(rec.expiry_timestamp))) <= now

\* the first batch of a retreading session replays the stored label of
\* seq 3 and nothing of seq 1 and 2: the stored positive record of seq 1 and
\* its negation of seq 2 have both disappeared
ReplaysThirdOnly ==
    /\ Processes
    /\ retreading
    /\ processed = <<>>
    /\ db.label_records \in ExpiringTables
    /\ message'.body.seq = 3
    /\ message'.body.labels = <<WireLabel(Some(1), "did:a", None, None, CtsOld)>>

\* C16: is_expired is true exactly when the expiry parses to a time <= now.
\* A record whose expiry is absent, does not parse or lies in the future is
\* not expired: when its negation disappears with it, the negation is
\* counted as disappeared while effective and the record stays in the log
\* of disappeared records.
C16_NotExpiredStaysEffective ==
    [][(ReplaysThirdOnly /\ ~Expired(db.label_records[1].rec, Now))
          => /\ self'.disappeared_negative_records = 1
             /\ LabelKey("did:a", "at:x", "spam") \in DOMAIN self'.disappeared_old_records]_vars

\* C17: what finalize outputs includes the effective label set, and no
\* entry of it is a negation or has an expiry that has passed.
C17_FinalizeOutputsEffectiveSet ==
    finalized =>
        /\ "effective" \in DOMAIN finalize_summary(self)
        /\ \A e \in finalize_summary(self).effective : ~e.neg /\ ~Expired(e, Now)

\* a binary frame with a well-formed header and body, and bytes after them
WellFormedWithTrailing(msg) ==
    /\ msg.kind = "binary"
    /\ msg.extra > 0
    /\ \/ /\ LabelsFrame(msg)
          /\ AllVersionOne(msg)
          /\ 0 < msg.body.seq /\ msg.body.seq < I64_MAX
       \/ (msg.header = InfoHeader /\ msg.body = InfoBody)

\* C18: bytes left after the header and body of a binary frame that decodes
\* and is processed (no write of its transaction failing) are reported and
\* are not fatal: the session keeps streaming, and a #labels frame counts
\* as processed, with a row for each of its labels.
C18_TrailingBytesNonFatal ==
    [][(Handles /\ WellFormedWithTrailing(message')
          /\ outcome' \notin {"storage_error", "several_rows"})
          => /\ outcome' \in {"labels_extra", "info_extra"}
             /\ pc' = "streaming"
             /\ result' = "running"
             /\ LabelsFrame(message')
                  => /\ processed' = Append(processed, message'.body.seq)
                     /\ BodyKeys(message'.body) \subseteq RowKeys(db'.label_records)]_vars

\* a #labels frame with a label and a trailing byte was processed after
\* another frame: its row is stored and the session is streaming
C18_Witness ==
    /\ outcome = "labels_extra"
    /\ pc = "streaming"
    /\ Len(processed) = 2
    /\ Len(message.body.labels) = 1
    /\ BodyKeys(message.body) \subseteq RowKeys(db.label_records)

\* C19: a text message is logged and nothing else: the database, the store
\* (labeler_dids, last_seq, the counters, latest_create_timestamp) and the
\* session's cursor and retreading flag are as before, and the session
\* keeps streaming on the open socket.
C19_TextTolerated ==
    [][(Handles /\ message'.kind = "text")
          => /\ outcome' = "text"
             /\ self' = self
             /\ db' = db
             /\ processed' = processed
             /\ cursor' = cursor /\ retreading' = retreading
             /\ pc' = "streaming" /\ result' = "running"
             /\ socket' = "open" /\ finalized' = finalized]_vars

\* a text message arrived after a batch with labels was processed: the
\* store still has what the batch left, the session is streaming
C19_Witness ==
    /\ message.kind = "text"
    /\ outcome = "text"
    /\ pc = "streaming"
    /\ Len(processed) = 1
    /\ IsSome(self.latest_create_timestamp)
    /\ Len(db.label_records) > 0


\* the records process_labels was called with in the step
Received == from_subscription_record(message'.body).labels

\* the rows and the suspicious records the step has added
NewRows == {db'.label_records[j] : j \in (DOMAIN db'.label_records) \ (DOMAIN db.label_records)}
NewSuspicious ==
    {db'.suspicious_records[j] :
        j \in (DOMAIN db'.suspicious_records) \ (DOMAIN db.suspicious_records)}

\* the received label is beyond the seqs stored for its src when the
\* session first saw the src (case 1)
BeyondStored(l) == self'.labeler_dids[l.dbkey.key.src] < l.dbkey.seq

\* the step leaves the stored rows with this key as they are, and logs no
\* suspicious record for the key
Untouched(dbkey) ==
    /\ \A j \in DOMAIN db.label_records :
          db.label_records[j].rec.dbkey = dbkey => db'.label_records[j] = db.label_records[j]
    /\ \A s \in NewSuspicious : s.rec.dbkey # dbkey

RowsInRange ==
    {j \in DOMAIN db.label_records :
        LET k == db.label_records[j].rec.dbkey
        IN  /\ k.key.src \in BodySrcs(message'.body)
            /\ k.seq <= message'.body.seq
            /\ k.key.src \in DOMAIN self.last_seq => k.seq > self.last_seq[k.key.src]}

\* a retreading session is handed a batch that replays exactly the records
\* stored in its range, and no write fails
ExactReplay ==
    /\ CallsProcessLabels
    /\ retreading
    /\ outcome' # "storage_error"
    /\ Range(Received) = {db.label_records[j].rec : j \in RowsInRange}

\* the batch only bumps the rows it replays: no suspicious record, no new
\* row, no counter moved, nothing logged as disappeared
OnlyUpdated ==
    /\ Processes
    /\ db'.suspicious_records = db.suspicious_records
    /\ Len(db'.label_records) = Len(db.label_records)
    /\ \A j \in DOMAIN db.label_records :
          IF j \in RowsInRange
          THEN db'.label_records[j] = Row(db.label_records[j].rec, ImportId, Now)
          ELSE db'.label_records[j] = db.label_records[j]
    /\ self'.suspicious_new_records = self.suspicious_new_records
    /\ self'.disappeared_negative_records = self.disappeared_negative_records
    /\ self'.disappeared_old_records = self.disappeared_old_records

\* C22 as stated: every batch of a retread that replays, in increasing seq
\* order, exactly the stored records only updates them: no suspicious
\* record, the counters and disappeared_old_records as they were (0 and
\* empty over the whole stream).
C22_ExactReplayOnlyUpdates ==
    [][ExactReplay => OnlyUpdated]_vars

\* C22 amended: the same, provided no two of the replayed rows share their
\* database key.
C22_ExactReplayOfDistinctKeysOnlyUpdates ==
    [][(ExactReplay
          /\ \A i, j \in RowsInRange :
                db.label_records[i].rec.dbkey = db.label_records[j].rec.dbkey => i = j)
       => OnlyUpdated]_vars

\* the two stored records, seq 1 and seq 2, were replayed in two batches:
\* both rows carry this run's import id, nothing else was written
C22_Witness ==
    /\ retreading
    /\ processed = <<1, 2>>
    /\ "did:a" \in DOMAIN self.labeler_dids /\ self.labeler_dids["did:a"] = 2
    /\ Len(db.label_records) = 2
    /\ db.label_records[1].import_id = ImportId
    /\ db.label_records[2].import_id = ImportId
    /\ db.label_records[2].rec.dbkey.seq = 2
    /\ db.suspicious_records = <<>>
    /\ self.suspicious_new_records = 0
    /\ self.disappeared_negative_records = 0
    /\ self.disappeared_old_records = EmptyMap


\* received label i and stored row j have one db key and differ otherwise
StoredMismatch(i, j) ==
    /\ db.label_records[j].rec.dbkey = Received[i].dbkey
    /\ db.label_records[j].rec # Received[i]

\* the step logged row j as "replaced" (with the import it came from) and
\* label i as "replacing", and row j now holds label i
ReplacedBy(i, j) ==
    /\ \E s \in NewSuspicious :
          /\ s.problem_category = "replaced"
          /\ s.rec = db.label_records[j].rec
          /\ s.original_import_id = Some(db.label_records[j].import_id)
          /\ s.import_id = ImportId
    /\ \E s \in NewSuspicious :
          /\ s.problem_category = "replacing"
          /\ s.rec = Received[i]
          /\ s.original_import_id = None
    /\ db'.label_records[j] = Row(Received[i], ImportId, Now)

\* C23 as stated: while retreading, a received label and a stored record
\* with the same db key that differ in another field are logged as
\* "replacing" and "replaced", and the row is updated to the received
\* content, in the batch's transaction.
C23_MismatchReplaced ==
    [][(Processes /\ retreading) =>
          \A i \in DOMAIN Received : \A j \in DOMAIN db.label_records :
              StoredMismatch(i, j) => ReplacedBy(i, j)]_vars

\* C23 amended: the same for the first label of the batch with its key,
\* when its seq is not beyond labeler_dids[src] and the stored record is in
\* the range loaded for the batch.
C23_FirstMismatchOfLoadedReplaced ==
    [][(Processes /\ retreading) =>
          \A i \in DOMAIN Received : \A j \in DOMAIN db.label_records :
              (/\ StoredMismatch(i, j)
               /\ ~BeyondStored(Received[i])
               /\ j \in RowsInRange
               /\ \A h \in 1..(i - 1) : Received[h].dbkey # Received[i].dbkey)
                => ReplacedBy(i, j)]_vars

\* the stored label of seq 1 was replayed as a negation: the row holds the
\* negation, and the two suspicious records are written
C23_Witness ==
    /\ retreading
    /\ processed = <<1>>
    /\ Len(db.label_records) = 1
    /\ db.label_records[1].rec.neg
    /\ db.label_records[1].import_id = ImportId
    /\ Len(db.suspicious_records) = 2
    /\ db.suspicious_records[1].problem_category = "replaced"
    /\ ~db.suspicious_records[1].rec.neg
    /\ db.suspicious_records[1].original_import_id = Some(PriorImportId)
    /\ db.suspicious_records[2].problem_category = "replacing"
    /\ db.suspicious_records[2].rec = db.label_records[1].rec


\* the received label is not beyond the stored seqs of its src, and no row
\* with its key was stored before the batch (case 4)
NewToStore(l) ==
    /\ ~BeyondStored(l)
    /\ l.dbkey \notin RowKeys(db.label_records)

\* the step logged the received label as "new"
LoggedNew(l) ==
    \E s \in NewSuspicious :
        /\ s.problem_category = "new"
        /\ s.rec = l
        /\ s.import_id = ImportId
        /\ s.original_import_id = None

LoggedAsNew ==
    {j \in DOMAIN db.suspicious_records : db.suspicious_records[j].problem_category = "new"}

\* C25: when finalize runs after a retread, the counter
\* suspicious_new_records it reports is the number of received labels that
\* were logged with problem "new".
C25_CounterCountsNewRecords ==
    (retreading /\ finalized)
        => finalize_summary(self).suspicious_new_records = Cardinality(LoggedAsNew)


\* C26: every record in disappeared_old_records is a stored record that is
\* no negation and whose expiry has not passed; a missing stored record that
\* is expired is never added.
C26_DisappearedAreUnexpiredPositives ==
    \A k \in DOMAIN self.disappeared_old_records :
        LET r == self.disappeared_old_records[k]
        IN  /\ \E j \in DOMAIN db.label_records : db.label_records[j].rec = r
            /\ ~r.neg
            /\ ~Expired(r, Now)


\* the stored negations in the batch's range that no received label matches
MissingNegations ==
    {j \in RowsInRange :
        /\ db.label_records[j].rec.neg
        /\ \A i \in DOMAIN Received : Received[i].dbkey # db.label_records[j].rec.dbkey}

\* the stored record negation j negates: the latest positive record of its
\* label key before it
NegatedBy(j) ==
    LET Before(i) == /\ ~db.label_records[i].rec.neg
                     /\ db.label_records[i].rec.dbkey.key = db.label_records[j].rec.dbkey.key
                     /\ db.label_records[i].rec.dbkey.seq < db.label_records[j].rec.dbkey.seq
    IN  {i \in DOMAIN db.label_records :
            /\ Before(i)
            /\ \A h \in DOMAIN db.label_records :
                  Before(h) => db.label_records[h].rec.dbkey.seq <= db.label_records[i].rec.dbkey.seq}

\* the step logged stored row j as "disappeared-while-effective"
FlaggedDisappeared(j) ==
    \E s \in NewSuspicious :
        /\ s.problem_category = "disappeared-while-effective"
        /\ s.rec = db.label_records[j].rec

\* C27: a stored negation missing from the retread stream is logged as
\* "disappeared-while-effective" and counted exactly when the record it
\* negates is not expired; when that record is expired, it is neither
\* logged nor counted.
C27_MissingNegationFlaggedIffEffective ==
    [][(Processes /\ retreading) =>
          /\ \A j \in MissingNegations : \A i \in NegatedBy(j) :
                FlaggedDisappeared(j) <=> ~Expired(db.label_records[i].rec, Now)
          /\ self'.disappeared_negative_records =
                self.disappeared_negative_records
                  + Cardinality({j \in MissingNegations : FlaggedDisappeared(j)})]_vars


\* the db keys of src that the step loads from the store for comparison
LoadedNow(src) ==
    {k \in DOMAIN process_received(self, db, Received, retreading).per_src.indexed_old_records :
        k.key.src = src}

\* C28: while retreading, each batch loads for each of its srcs the stored
\* records from after the src's last batch seq (from 0 for its first batch)
\* up to the batch's seq and leaves the batch's seq in last_seq, and
\* last_seq[src] never decreases: the ranges of successive batches are
\* contiguous and disjoint, each stored record is loaded once.
C28_RangesContiguousLastSeqMonotone ==
    [][(CallsProcessLabels /\ retreading) =>
          \A src \in BodySrcs(message'.body) :
              LET seq_start == IF src \in DOMAIN self.last_seq THEN self.last_seq[src] + 1 ELSE 0
              IN  /\ self'.last_seq[src] = message'.body.seq
                  /\ self'.last_seq[src] >= seq_start - 1
                  /\ LoadedNow(src) =
                        {k \in RowKeys(db.label_records) :
                            /\ k.key.src = src
                            /\ seq_start <= k.seq
                            /\ k.seq <= message'.body.seq}]_vars


\* what the loops of the step queue for the transaction: the suspicious
\* entries, updates and inserts of the received labels
Queued == process_received(self, db, Received, retreading).acc

\* every write the step queued is in the store after it
AllWritten ==
    /\ \A i \in DOMAIN Queued.suspicious_old_records :
          \E s \in NewSuspicious :
              /\ s.rec.dbkey = Queued.suspicious_old_records[i][1]
              /\ s.problem_category = Queued.suspicious_old_records[i][2]
    /\ \A i \in DOMAIN Queued.suspicious_new_records :
          \E s \in NewSuspicious :
              /\ s.rec = Queued.suspicious_new_records[i][1]
              /\ s.problem_category = Queued.suspicious_new_records[i][2]
    /\ Cardinality({j \in (DOMAIN db'.suspicious_records) \ (DOMAIN db.suspicious_records) :
                      db'.suspicious_records[j].problem_category = "disappeared-while-effective"})
          = self'.disappeared_negative_records - self.disappeared_negative_records
    /\ \A i \in DOMAIN Queued.update_labels :
          \E j \in DOMAIN db.label_records :
              db'.label_records[j] = Row(Queued.update_labels[i], ImportId, Now)
    /\ \A i \in DOMAIN Queued.insert_labels :
          LET l == Queued.insert_labels[i]
              conflict == \/ l.dbkey \in RowKeys(db.label_records)
                          \/ \E h \in 1..(i - 1) : Queued.insert_labels[h].dbkey = l.dbkey
          IN  /\ l.dbkey \in RowKeys(db'.label_records)
              /\ (~db.unique_key \/ ~conflict) => Row(l, ImportId, Now) \in NewRows

StoredSeqs ==
    {db.label_records[j].rec.dbkey.seq :
        j \in {i \in DOMAIN db.label_records : db.label_records[i].rec.dbkey.key.src = args.did}}

\* C30: the subscription is opened with cursor 0 whenever retreading is
\* true, which it is in direct mode and in lookup mode with --retread; in
\* lookup mode without --retread it is opened with the greatest seq stored
\* for the did (0 when none is stored), and retreading is false.
C30_CursorAtConnect ==
    [][connects' = connects + 1 =>
          /\ retreading => cursor = 0
          /\ args.cmd = "direct" => retreading
          /\ (args.cmd = "lookup" /\ args.retread) => retreading
          /\ (args.cmd = "lookup" /\ ~args.retread)
                => /\ ~retreading
                   /\ cursor = IF StoredSeqs = {} THEN 0 ELSE Max(StoredSeqs)]_vars

\* a lookup without --retread over a store that holds seq 1 and 2 of the
\* did has connected with cursor 2
C30_Witness ==
    /\ pc = "streaming"
    /\ connects = 1
    /\ args.cmd = "lookup"
    /\ ~args.retread
    /\ ~retreading
    /\ cursor = 2
    /\ delivered = 0


\* the seqs of the rows stored for src, and of those this session wrote
SeqsStoredFor(src) ==
    {db.label_records[j].rec.dbkey.seq :
        j \in {i \in DOMAIN db.label_records : db.label_records[i].rec.dbkey.key.src = src}}
WrittenThisSession(src) ==
    {j \in DOMAIN db.label_records :
        /\ db.label_records[j].rec.dbkey.key.src = src
        /\ db.label_records[j].import_id = ImportId}

\* C31: the prior seq paired with a src in labeler_dids is set once, when
\* the src is seeded or first seen, to the greatest seq stored for the src
\* (0 if none) at a time when this session has written no row for it; no
\* later step changes or removes it, and a received label of a seq beyond
\* it is never compared or logged, whatever the session has inserted.
C31_PriorSeqSetOnce ==
    [][/\ DOMAIN self.labeler_dids \subseteq DOMAIN self'.labeler_dids
       /\ \A src \in DOMAIN self'.labeler_dids :
             IF src \in DOMAIN self.labeler_dids
             THEN self'.labeler_dids[src] = self.labeler_dids[src]
             ELSE /\ WrittenThisSession(src) = {}
                  /\ self'.labeler_dids[src] =
                        IF SeqsStoredFor(src) = {} THEN 0 ELSE Max(SeqsStoredFor(src))
       /\ Processes =>
             \A i \in DOMAIN Received :
                 BeyondStored(Received[i])
                   => \A s \in NewSuspicious : s.rec.dbkey # Received[i].dbkey]_vars

\* a retreading session over a store that held seq 1 of the src processed
\* two batches of seq 2: the first inserted a row, the second met it, and
\* the prior seq is still 1; nothing was logged as suspicious
C31_Witness ==
    /\ retreading
    /\ processed = <<2, 2>>
    /\ "did:a" \in DOMAIN self.labeler_dids
    /\ self.labeler_dids["did:a"] = 1
    /\ \E j \in DOMAIN db.label_records :
          /\ db.label_records[j].rec.dbkey.seq = 2
          /\ db.label_records[j].import_id = ImportId
    /\ LabelsFrame(message)
    /\ Len(message.body.labels) = 1
    /\ message.body.labels[1].src = "did:a"
    /\ db.suspicious_records = <<>>

====
